---- MODULE Spec2Model ----
(***************************************************************************)
(* Model of python-client/wyron_client/client.py: the REST client          *)
(* (WyronClient), the gRPC client (WyronGrpcClient), their record parsers  *)
(* and PeerState.generate_config.                                          *)
(*                                                                         *)
(* One client instance is modelled; `transport` says which class it is.    *)
(* A public operation runs as a sequence of remote exchanges; the remote   *)
(* service answers each exchange nondeterministically.                     *)
(*                                                                         *)
(* Optional[T] values are modelled as sequences: None is <<>> and a        *)
(* present value v is <<v>>.                                               *)
(***************************************************************************)
EXTENDS Integers, Sequences, FiniteSets, TLC

VARIABLES
    transport,  \* "rest" (WyronClient) or "grpc" (WyronGrpcClient)
    token,      \* self.token
    pc,         \* position of the running operation
    op,         \* name of the running public operation
    stage,      \* which _request/_call of the operation is running
    args,       \* arguments of the running operation
    request,    \* the outgoing request built by the operation
    reqs,       \* per _request/_call invocation: the remote exchanges made
    remote,     \* server-side state the last successful answer came from
    result,     \* what the operation gave its caller: ok or the exception
    returned    \* the value returned to the caller

vars == <<transport, token, pc, op, stage, args, request, reqs, remote, result, returned>>

\* ---------------------------------------------------------------- bounds
MaxIfaces == 2
MaxPeers == 2
MaxList == 1

\* ---------------------------------------------------------------- values
None == <<>>

Some(v) == <<v>>

\* Python truthiness of an Optional[str]: None and "" are falsy
Truthy(x) == x # None /\ x # <<"">>

SeqsUpTo(S, n) == UNION {[1..k -> S] : k \in 0..n}

Transports == {"rest", "grpc"}

Tokens == {"t1", "t2"}

IfNames == {"wg0", "wg1"}

\* ------------------------------------------------- server-side state
\* The interfaces a server can hold: endpoint, public_key and the
\* descriptive fields (display_name, dns, port) may be absent on the server.
IfaceStates ==
    { [name |-> n, display_name |-> k[3], subnet |-> Some("10.0.0.0/24"),
       endpoint |-> k[1], dns |-> IF k[3] = None THEN None ELSE Some("1.1.1.1"),
       port |-> IF k[3] = None THEN None ELSE Some(51820),
       created_at |-> Some(1700), public_key |-> k[2]] :
      n \in IfNames,
      k \in { <<Some("vpn.example.com"), Some("PUB"), Some("office")>>,
              <<Some("vpn.example.com"), Some("PUB"), None>>,
              <<None, Some("PUB"), Some("office")>>,
              <<Some("vpn.example.com"), None, Some("office")>> } }

ServerStatesUpTo(n) ==
    { [name |-> "srv1", address |-> "192.0.2.1", username |-> "admin",
       display_name |-> d, created_at |-> IF d = None THEN None ELSE Some(1600),
       interfaces |-> is] :
      d \in {None, Some("Main")}, is \in SeqsUpTo(IfaceStates, n) }

ServerStates == ServerStatesUpTo(MaxIfaces)

ServerLists == SeqsUpTo(ServerStatesUpTo(1), MaxList)

PeerStates ==
    { [server_id |-> "srv1", interface |-> "wg0",
       allowed_address |-> "10.0.0.2/32", private_key |-> k] :
      k \in {None, Some("PK")} }

UserStates ==
    { [user_key |-> "u1", sub_token |-> "sub", social_id |-> 7, active |-> TRUE,
       traffic_limit |-> 100, usage |-> 5, duration_seconds |-> 60,
       created_at |-> 1500, first_connected_at |-> 1501,
       last_connected_at |-> 1502, created_by |-> "admin", peers |-> ps] :
      ps \in SeqsUpTo(PeerStates, MaxPeers) }

UserLists == SeqsUpTo(UserStates, MaxList)

\* ------------------------------------------------------- wire formats
\* What the remote service sends for a given state.  A JSON object is a
\* function whose domain is the keys present: a field absent on the server
\* is a key left out.  A protobuf message always yields a value for every
\* scalar field: an unset field reads as "" or 0.
json_object(st, required) ==
    [k \in required \cup {o \in (DOMAIN st) \ required : st[o] # None} |->
        IF k \in required THEN st[k] ELSE st[k][1]]

OrDefault(x, d) == IF x = None THEN d ELSE x[1]

rest_iface_json(i) == json_object(i, {"name"})

rest_server_json(s) ==
    json_object([s EXCEPT !.interfaces =
                    [j \in DOMAIN s.interfaces |-> rest_iface_json(s.interfaces[j])]],
                {"name", "address", "username", "interfaces"})

rest_peer_json(p) == json_object(p, {"server_id", "interface", "allowed_address"})

rest_user_json(u) ==
    [u EXCEPT !.peers = [j \in DOMAIN u.peers |-> rest_peer_json(u.peers[j])]]

grpc_iface_msg(i) ==
    [name |-> i.name, display_name |-> OrDefault(i.display_name, ""),
     subnet |-> OrDefault(i.subnet, ""), endpoint |-> OrDefault(i.endpoint, ""),
     dns |-> OrDefault(i.dns, ""), port |-> OrDefault(i.port, 0),
     created_at |-> OrDefault(i.created_at, 0),
     public_key |-> OrDefault(i.public_key, "")]

grpc_server_msg(s) ==
    [id |-> s.name, address |-> s.address, username |-> s.username,
     display_name |-> OrDefault(s.display_name, ""),
     created_at |-> OrDefault(s.created_at, 0),
     interfaces |-> [j \in DOMAIN s.interfaces |-> grpc_iface_msg(s.interfaces[j])]]

grpc_peer_msg(p) ==
    [server_id |-> p.server_id, interface |-> p.interface,
     allowed_address |-> p.allowed_address,
     private_key |-> OrDefault(p.private_key, "")]

grpc_user_msg(u) ==
    [u EXCEPT !.peers = [j \in DOMAIN u.peers |-> grpc_peer_msg(u.peers[j])]]

\* ------------------------------------------------------------ parsers
\* dataclass construction from keyword arguments: a key that is missing
\* leaves the field at its default, None
kwarg(d, k) == IF k \in DOMAIN d THEN Some(d[k]) ELSE None

WireGuardInterface_rest(d) ==
    [name |-> d["name"], display_name |-> kwarg(d, "display_name"),
     subnet |-> kwarg(d, "subnet"), endpoint |-> kwarg(d, "endpoint"),
     dns |-> kwarg(d, "dns"), port |-> kwarg(d, "port"),
     created_at |-> kwarg(d, "created_at"), public_key |-> kwarg(d, "public_key")]

parse_server_rest(s) ==
    LET ifs == IF "interfaces" \in DOMAIN s THEN s["interfaces"] ELSE <<>>
    IN  [name |-> s["name"], address |-> s["address"], username |-> s["username"],
         display_name |-> kwarg(s, "display_name"),
         created_at |-> kwarg(s, "created_at"),
         interfaces |-> [j \in DOMAIN ifs |-> WireGuardInterface_rest(ifs[j])]]

PeerState_rest(d) ==
    [server_id |-> d["server_id"], interface |-> d["interface"],
     allowed_address |-> d["allowed_address"],
     private_key |-> kwarg(d, "private_key"), client |-> None]

parse_user_rest(u) ==
    LET ps == IF "peers" \in DOMAIN u THEN u["peers"] ELSE <<>>
    IN  [u EXCEPT !.peers = [j \in DOMAIN ps |-> PeerState_rest(ps[j])]]

WireGuardInterface_grpc(i) ==
    [name |-> i.name, display_name |-> Some(i.display_name),
     subnet |-> Some(i.subnet), endpoint |-> Some(i.endpoint),
     dns |-> Some(i.dns), port |-> Some(i.port),
     created_at |-> Some(i.created_at), public_key |-> Some(i.public_key)]

parse_server_grpc(s) ==
    [name |-> s.id, address |-> s.address, username |-> s.username,
     display_name |-> Some(s.display_name), created_at |-> Some(s.created_at),
     interfaces |-> [j \in DOMAIN s.interfaces |-> WireGuardInterface_grpc(s.interfaces[j])]]

PeerState_grpc(p) ==
    [server_id |-> p.server_id, interface |-> p.interface,
     allowed_address |-> p.allowed_address,
     private_key |-> Some(p.private_key), client |-> None]

parse_user_grpc(u) ==
    [u EXCEPT !.peers = [j \in DOMAIN u.peers |-> PeerState_grpc(u.peers[j])]]

\* the record a client of transport tr hands back for server state s
parse_server(tr, s) ==
    IF tr = "rest" THEN parse_server_rest(rest_server_json(s))
    ELSE parse_server_grpc(grpc_server_msg(s))

parse_user(tr, u) ==
    IF tr = "rest" THEN parse_user_rest(rest_user_json(u))
    ELSE parse_user_grpc(grpc_user_msg(u))

\* PeerState.bind_client
bind_client(p, c) == [p EXCEPT !.client = Some(c)]

\* for peer in user.peers: peer.bind_client(self)
bind_peers(u, c) == [u EXCEPT !.peers = [j \in DOMAIN u.peers |-> bind_client(u.peers[j], c)]]

\* ------------------------------------------------------------ outcomes
Pending == [status |-> "none", exc |-> "", msg |-> ""]

Ok == [status |-> "ok", exc |-> "", msg |-> ""]

Raise(e, m) == [status |-> "raised", exc |-> e, msg |-> m]

Outcome(res, val) == [again |-> FALSE, result |-> res, returned |-> val]

\* the operation goes on to another _request/_call
Again == [again |-> TRUE, result |-> Pending, returned |-> None]

\* answers of the remote service to one exchange
AttemptResps == {"ok", "unauth", "notfound", "invalid", "timeout", "connerr"}

LoginResps ==
    { [r |-> "ok", token |-> t] : t \in {None, Some("")} \cup {Some(x) : x \in Tokens} }
    \cup { [r |-> e, token |-> None] : e \in {"unauth", "timeout"} }

\* HTTP 401 / grpc.StatusCode.UNAUTHENTICATED
IsAuthFailure(r) == r = "unauth"

\* the exception a failed exchange raises: httpx raises on timeouts and
\* connection errors, raise_for_status on error statuses; grpc raises RpcError
error_of(tr, r) ==
    IF tr = "grpc" THEN Raise("RpcError", r)
    ELSE IF r = "timeout" THEN Raise("TimeoutException", r)
    ELSE IF r = "connerr" THEN Raise("ConnectError", r)
    ELSE Raise("HTTPStatusError", r)

\* _headers / _metadata: the token is attached when it is set and non-empty
carried(t) == IF t = "" THEN None ELSE Some(t)

\* ---------------------------------------------------------------- login
login_rest(lr) ==
    IF lr.r # "ok" THEN [result |-> error_of("rest", lr.r), token |-> None]
    ELSE IF ~Truthy(lr.token)
         THEN [result |-> Raise("Exception", "Login failed: token missing in response"),
               token |-> None]
         ELSE [result |-> Ok, token |-> lr.token]

login_grpc(lr) ==
    IF lr.r # "ok" THEN [result |-> error_of("grpc", lr.r), token |-> None]
    ELSE [result |-> Ok, token |-> Some(OrDefault(lr.token, ""))]

login(tr, lr) == IF tr = "rest" THEN login_rest(lr) ELSE login_grpc(lr)

\* one login exchange as logged: what the service answered (an error, a
\* reply with a token, a reply without), the token of the reply, and whether
\* login() returned or raised
login_event(lr, out) ==
    [k |-> "login",
     r |-> IF lr.r = "ok" THEN (IF Truthy(lr.token) THEN "token" ELSE "notoken") ELSE lr.r,
     tok |-> lr.token,
     res |-> IF out.result.status = "ok" THEN "returned" ELSE "raised"]

\* one attempt of the call as logged: the answer and the token it carried
attempt_event(r, t) ==
    [k |-> "attempt", r |-> r, tok |-> carried(t),
     res |-> IF r = "ok" THEN "returned" ELSE "raised"]

\* ------------------------------------------------------ config rendering
Min(S) == CHOOSE x \in S : \A y \in S : x <= y

\* PeerState._resolve_iface, after the server is fetched: the first
\* interface with the name, or None
resolve_iface(server, name) ==
    LET m == {j \in DOMAIN server.interfaces : server.interfaces[j].name = name}
    IN  IF m = {} THEN None ELSE Some(server.interfaces[Min(m)])

generate_config_local_bound_first(p) ==
    IF p.client = None THEN Raise("InterfaceNotFound", "Peer has no client bound")
    ELSE IF ~Truthy(p.private_key) THEN Raise("InterfaceMissingKey", "Peer private_key missing")
    ELSE Pending

\* PeerState.generate_config up to the call of get_server
generate_config_local(p) ==
    IF ~Truthy(p.private_key) THEN Raise("InterfaceMissingKey", "Peer private_key missing")
    ELSE IF p.client = None THEN Raise("InterfaceNotFound", "Peer has no client bound")
    ELSE Pending

\* PeerState.generate_config from the return of get_server
generate_config_render(p, server) ==
    LET found == resolve_iface(server, p.interface)
    IN  IF found = None
        THEN Outcome(Raise("InterfaceNotFound", "Interface not found on server"), None)
        ELSE LET iface == found[1]
             IN IF ~Truthy(iface.endpoint)
                THEN Outcome(Raise("InterfaceMissingKey", "Interface endpoint missing"), None)
                ELSE IF ~Truthy(iface.public_key)
                THEN Outcome(Raise("InterfaceMissingKey", "Interface public_key missing"), None)
                ELSE Outcome(Ok, [Address |-> p.allowed_address, DNS |-> iface.dns,
                                  PrivateKey |-> p.private_key, AllowedIPs |-> "0.0.0.0/0",
                                  Endpoint |-> iface.endpoint, Port |-> iface.port,
                                  PublicKey |-> iface.public_key])

\* ----------------------------------------------- requests of list_users
ListArgs ==
    { [social_id |-> s, status |-> st, search |-> se,
       limit |-> pg[1], skip |-> pg[2], sort |-> pg[3], order |-> pg[4]] :
      s \in {None, Some(0), Some(7)},
      st \in {None, Some(""), Some("active")},
      se \in {None, Some(""), Some("bob")},
      pg \in { <<50, 0, "created_at", "desc">>, <<10, 5, "usage", "asc">> } }

list_users_params_falsy_id(a) ==
    [limit |-> Some(a.limit), skip |-> Some(a.skip), sort |-> Some(a.sort),
     order |-> Some(a.order),
     social_id |-> IF a.social_id # None /\ a.social_id # Some(0) THEN a.social_id ELSE None,
     status |-> IF Truthy(a.status) THEN a.status ELSE None,
     search |-> IF Truthy(a.search) THEN a.search ELSE None]

\* the query parameters / ListUsersRequest fields: a key that is not set is None
list_users_params(a) ==
    [limit |-> Some(a.limit), skip |-> Some(a.skip), sort |-> Some(a.sort),
     order |-> Some(a.order),
     social_id |-> IF a.social_id # None THEN a.social_id ELSE None,
     status |-> IF Truthy(a.status) THEN a.status ELSE None,
     search |-> IF Truthy(a.search) THEN a.search ELSE None]

list_users_request(a) ==
    [limit |-> Some(a.limit), skip |-> Some(a.skip), sort |-> Some(a.sort),
     order |-> Some(a.order),
     social_id |-> IF a.social_id # None THEN a.social_id ELSE None,
     status |-> IF Truthy(a.status) THEN a.status ELSE None,
     search |-> IF Truthy(a.search) THEN a.search ELSE None]

build_list_request(tr, a) ==
    IF tr = "rest" THEN list_users_params(a) ELSE list_users_request(a)

\* ------------------------------------------- what each operation returns
list_servers_return(tr, p) == Outcome(Ok, [j \in DOMAIN p |-> parse_server(tr, p[j])])

get_server_return(tr, p) == Outcome(Ok, parse_server(tr, p))

\* REST: POST /servers answers with the name, then get_server(name);
\* gRPC: Update answers with the server
create_or_update_server_return(tr, st, p) ==
    IF tr = "grpc" THEN Outcome(Ok, parse_server(tr, p))
    ELSE IF st = 1
         THEN IF ~Truthy(p)
              THEN Outcome(Raise("Exception",
                                 "server create/update succeeded but 'name' missing"), None)
              ELSE Again
         ELSE get_server_return(tr, p)

list_users_return(tr, p) ==
    Outcome(Ok, [j \in DOMAIN p |-> bind_peers(parse_user(tr, p[j]), tr)])

get_user_return_unbound(tr, p) == Outcome(Ok, parse_user(tr, p))

get_user_return(tr, p) == Outcome(Ok, bind_peers(parse_user(tr, p), tr))

create_user_return(tr, p) == Outcome(Ok, bind_peers(parse_user(tr, p), tr))

edit_user_return(tr, p) == Outcome(Ok, bind_peers(parse_user(tr, p), tr))

\* REST hands back the JSON body; gRPC builds a WireGuardInterface
update_interface_return(tr, p) ==
    IF tr = "grpc" THEN Outcome(Ok, WireGuardInterface_grpc(grpc_iface_msg(p)))
    ELSE Outcome(Ok, rest_iface_json(p))

\* operations that hand back the raw reply (or nothing)
RawOps(tr) ==
    {"delete_server", "delete_interface", "delete_user", "enable_user",
     "disable_user", "reset_usage", "metrics", "me"}
    \cup (IF tr = "rest" THEN {"create_or_update_server_raw", "logout"}
          ELSE {"create_admin"})

UserOps == {"get_user", "create_user", "edit_user"}

\* the server-side states a successful answer to the running call can carry
Payloads(o, st, tr) ==
    CASE o = "list_servers" -> ServerLists
      [] o \in {"get_server", "generate_config"} -> ServerStates
      [] o = "create_or_update_server" ->
            IF tr = "rest" /\ st = 1 THEN {None, Some("srv1")} ELSE ServerStates
      [] o = "list_users" -> UserLists
      [] o \in UserOps -> UserStates
      [] o = "update_interface" -> IfaceStates
      [] OTHER -> {Some("reply")}

finish(tr, o, st, a, p) ==
    CASE o = "list_servers" -> list_servers_return(tr, p)
      [] o = "get_server" -> get_server_return(tr, p)
      [] o = "create_or_update_server" -> create_or_update_server_return(tr, st, p)
      [] o = "list_users" -> list_users_return(tr, p)
      [] o = "get_user" -> get_user_return(tr, p)
      [] o = "create_user" -> create_user_return(tr, p)
      [] o = "edit_user" -> edit_user_return(tr, p)
      [] o = "update_interface" -> update_interface_return(tr, p)
      [] o = "generate_config" -> generate_config_render(a, parse_server(tr, p))
      [] OTHER -> Outcome(Ok, p)

\* ------------------------------------------------- _request / _call
\* what follows the n-th attempt answered r: hand the answer back, log in
\* again and retry, or raise
after_attempt_loop(n, r) ==
    IF IsAuthFailure(r) THEN "relogin"
    ELSE IF r = "ok" THEN "return"
    ELSE "raise"

after_attempt_retry_all(n, r) ==
    IF n = 1 /\ r # "ok" THEN "relogin"
    ELSE IF r = "ok" THEN "return"
    ELSE "raise"

after_attempt(n, r) ==
    IF n = 1 /\ IsAuthFailure(r) THEN "relogin"
    ELSE IF r = "ok" THEN "return"
    ELSE "raise"

\* what follows login() inside _request / _call
after_login(out) == IF out.result.status = "ok" THEN "attempt2" ELSE "done"

Logged(ev) == [reqs EXCEPT ![Len(reqs)] = Append(@, ev)]

attempt(n) ==
    \E r \in AttemptResps :
      \E p \in (IF r = "ok" THEN Payloads(op, stage, transport) ELSE {None}) :
        LET rq == Logged(attempt_event(r, token))
            nxt == after_attempt(n, r)
            f == finish(transport, op, stage, args, p)
        IN  CASE nxt = "relogin" ->
                   /\ pc' = "relogin"
                   /\ reqs' = rq
                   /\ UNCHANGED <<stage, remote, result, returned>>
              [] nxt = "return" /\ f.again ->
                   /\ pc' = "attempt1"
                   /\ stage' = stage + 1
                   /\ reqs' = Append(rq, <<>>)
                   /\ remote' = p
                   /\ UNCHANGED <<result, returned>>
              [] nxt = "return" /\ ~f.again ->
                   /\ pc' = "done"
                   /\ reqs' = rq
                   /\ remote' = p
                   /\ result' = f.result
                   /\ returned' = f.returned
                   /\ UNCHANGED stage
              [] OTHER ->
                   /\ pc' = "done"
                   /\ reqs' = rq
                   /\ result' = error_of(transport, r)
                   /\ UNCHANGED <<stage, remote, returned>>

first_attempt ==
    /\ pc = "attempt1"
    /\ attempt(1)
    /\ UNCHANGED <<transport, token, op, args, request>>

second_attempt ==
    /\ pc = "attempt2"
    /\ attempt(2)
    /\ UNCHANGED <<transport, token, op, args, request>>

relogin ==
    /\ pc = "relogin"
    /\ \E lr \in LoginResps :
         LET out == login(transport, lr)
         IN  /\ reqs' = Logged(login_event(lr, out))
             /\ token' = IF out.token = None THEN token ELSE out.token[1]
             /\ pc' = after_login(out)
             /\ result' = IF after_login(out) = "done" THEN out.result ELSE result
    /\ UNCHANGED <<transport, op, stage, args, request, remote, returned>>

\* ------------------------------------------------- public operations
Start(o, a, rq) ==
    /\ pc = "idle"
    /\ pc' = "attempt1"
    /\ op' = o
    /\ stage' = 1
    /\ args' = a
    /\ request' = rq
    /\ reqs' = << <<>> >>
    /\ UNCHANGED <<transport, token, remote, result, returned>>

login_public ==
    /\ pc = "idle"
    /\ \E lr \in LoginResps :
         LET out == login(transport, lr)
         IN  /\ reqs' = << <<login_event(lr, out)>> >>
             /\ token' = IF out.token = None THEN token ELSE out.token[1]
             /\ result' = out.result
    /\ pc' = "done"
    /\ op' = "login"
    /\ stage' = 1
    /\ UNCHANGED <<transport, args, request, remote, returned>>

list_servers == Start("list_servers", None, None)

get_server == Start("get_server", None, None)

create_or_update_server == Start("create_or_update_server", None, None)

update_interface == Start("update_interface", None, None)

list_users == \E a \in ListArgs : Start("list_users", a, build_list_request(transport, a))

get_user == Start("get_user", None, None)

create_user == Start("create_user", None, None)

edit_user == Start("edit_user", None, None)

raw_op == \E o \in RawOps(transport) : Start(o, None, None)

\* a peer the caller holds: built by hand or handed back by a user operation
PeerInputs ==
    { [server_id |-> "srv1", interface |-> n, allowed_address |-> "10.0.0.2/32",
       private_key |-> k, client |-> c] :
      n \in IfNames, k \in {None, Some(""), Some("PK")}, c \in {None, Some(transport)} }

generate_config ==
    /\ pc = "idle"
    /\ \E p \in PeerInputs :
         LET pre == generate_config_local(p)
         IN  /\ args' = p
             /\ IF pre.status = "raised"
                THEN /\ pc' = "done"
                     /\ result' = pre
                     /\ reqs' = <<>>
                ELSE /\ pc' = "attempt1"
                     /\ result' = result
                     /\ reqs' = << <<>> >>
    /\ op' = "generate_config"
    /\ stage' = 1
    /\ UNCHANGED <<transport, token, request, remote, returned>>

\* the caller takes the outcome; the client is ready for the next operation
Return ==
    /\ pc = "done"
    /\ pc' = "idle"
    /\ op' = ""
    /\ stage' = 0
    /\ args' = None
    /\ request' = None
    /\ reqs' = <<>>
    /\ remote' = None
    /\ result' = Pending
    /\ returned' = None
    /\ UNCHANGED <<transport, token>>

\* the state after __init__, whose login() succeeded
Init ==
    /\ transport \in Transports
    /\ token \in (IF transport = "rest" THEN Tokens ELSE Tokens \cup {""})
    /\ pc = "idle"
    /\ op = ""
    /\ stage = 0
    /\ args = None
    /\ request = None
    /\ reqs = <<>>
    /\ remote = None
    /\ result = Pending
    /\ returned = None

Next ==
    \/ login_public
    \/ list_servers
    \/ get_server
    \/ create_or_update_server
    \/ update_interface
    \/ list_users
    \/ get_user
    \/ create_user
    \/ edit_user
    \/ raw_op
    \/ generate_config
    \/ first_attempt
    \/ relogin
    \/ second_attempt
    \/ Return

Spec == Init /\ [][Next]_vars

\* ================================================================ claims
Attempts(t) == Cardinality({j \in DOMAIN t : t[j].k = "attempt"})

Logins(t) == Cardinality({j \in DOMAIN t : t[j].k = "login"})

\* the i-th _request/_call of the running operation has ended
Ended(i) == i < Len(reqs) \/ pc = "done"

FirstIsAuthFailure(t) == Len(t) >= 1 /\ t[1].k = "attempt" /\ IsAuthFailure(t[1].r)

\* C1 as stated: no _request/_call makes more than two attempts or more than
\* one login, and one whose first attempt is an authentication failure runs
\* login() once and then re-issues the call once, a second authentication
\* failure going to the caller.
C1_ReloginThenRetryOnce ==
    \A i \in DOMAIN reqs :
      LET t == reqs[i]
      IN  /\ Attempts(t) <= 2
          /\ Logins(t) <= 1
          /\ (Ended(i) /\ FirstIsAuthFailure(t)) =>
                /\ Len(t) = 3
                /\ t[2].k = "login"
                /\ t[3].k = "attempt"
                /\ IsAuthFailure(t[3].r) =>
                      (i = Len(reqs) /\ result = error_of(transport, t[3].r))

\* C1 amended: no _request/_call makes more than two attempts or more than one
\* login; after a first authentication failure login() runs once; when it
\* returns the call is re-issued once (a second authentication failure goes
\* to the caller), and when it raises its error goes to the caller with no
\* second attempt.
C1_ReloginOnceRetryIfLoggedIn ==
    \A i \in DOMAIN reqs :
      LET t == reqs[i]
      IN  /\ Attempts(t) <= 2
          /\ Logins(t) <= 1
          /\ (Ended(i) /\ FirstIsAuthFailure(t)) =>
                /\ Len(t) >= 2
                /\ t[2].k = "login"
                /\ t[2].res = "returned" =>
                      /\ Len(t) = 3
                      /\ t[3].k = "attempt"
                      /\ IsAuthFailure(t[3].r) =>
                            (i = Len(reqs) /\ result = error_of(transport, t[3].r))
                /\ t[2].res = "raised" =>
                      /\ Len(t) = 2
                      /\ i = Len(reqs)
                      /\ result.status = "raised"
          /\ (Len(t) >= 1 /\ t[1].k = "attempt" /\ ~IsAuthFailure(t[1].r)) => Len(t) = 1

\* a call that failed authentication twice: one login, two attempts, the
\* second failure with the caller
C1_Witness ==
    /\ pc = "done"
    /\ op = "get_user"
    /\ Len(reqs) = 1
    /\ Len(reqs[1]) = 3
    /\ IsAuthFailure(reqs[1][1].r)
    /\ reqs[1][2].k = "login"
    /\ IsAuthFailure(reqs[1][3].r)
    /\ result.status = "raised"

\* C2: a login() whose reply carries no token (absent or empty) raises: it
\* does not return, nothing follows it, and the caller gets the error.
C2_LoginWithoutTokenRaises ==
    \A i \in DOMAIN reqs : \A j \in DOMAIN reqs[i] :
      (reqs[i][j].k = "login" /\ reqs[i][j].r = "notoken") =>
          /\ reqs[i][j].res = "raised"
          /\ j = Len(reqs[i])
          /\ pc = "done"
          /\ result.status = "raised"

\* C3: an attempt that fails with anything but an authentication failure is
\* the last exchange of the operation (no further attempt, no login), and
\* its error is what the caller gets.
C3_OtherFailuresNotRetried ==
    \A i \in DOMAIN reqs : \A j \in DOMAIN reqs[i] :
      LET e == reqs[i][j]
      IN  (e.k = "attempt" /\ e.r # "ok" /\ ~IsAuthFailure(e.r)) =>
              /\ j = Len(reqs[i])
              /\ i = Len(reqs)
              /\ pc = "done"
              /\ result = error_of(transport, e.r)

\* a first attempt that timed out, and a retry after re-login that was
\* answered not-found
C3_Witness ==
    /\ pc = "done"
    /\ Len(reqs) = 1
    /\ \/ (Len(reqs[1]) = 1 /\ reqs[1][1].r = "timeout" /\ transport = "rest")
       \/ (Len(reqs[1]) = 3 /\ reqs[1][3].r = "notfound" /\ transport = "grpc")

\* ---------------------------------------------------- config rendering
RenderDone == pc = "done" /\ op = "generate_config"

\* get_server answered, so the lookup of the interface ran
ServerResolved ==
    /\ RenderDone
    /\ reqs # <<>>
    /\ reqs[1] # <<>>
    /\ reqs[1][Len(reqs[1])].k = "attempt"
    /\ reqs[1][Len(reqs[1])].r = "ok"

ResolvedServer == parse_server(transport, remote)

Named(server, name) ==
    {j \in DOMAIN server.interfaces : server.interfaces[j].name = name}

\* C4: generate_config decides its error by the first failing check, in the
\* order private_key, resolver bound, interface found, interface endpoint and
\* public_key; the private_key and bound checks fail without a remote call;
\* a config is returned only when all four pass.
C4_ChecksInOrder ==
    RenderDone =>
      LET p == args
      IN  /\ ~Truthy(p.private_key) =>
                /\ result.status = "raised"
                /\ result.exc = "InterfaceMissingKey"
                /\ result.msg = "Peer private_key missing"
                /\ reqs = <<>>
          /\ (Truthy(p.private_key) /\ p.client = None) =>
                /\ result.status = "raised"
                /\ result.msg = "Peer has no client bound"
                /\ reqs = <<>>
          /\ (Truthy(p.private_key) /\ p.client # None) => reqs # <<>>
          /\ (Truthy(p.private_key) /\ p.client # None /\ ServerResolved) =>
                LET server == ResolvedServer
                    named == Named(server, p.interface)
                IN  /\ named = {} =>
                          /\ result.status = "raised"
                          /\ result.exc = "InterfaceNotFound"
                          /\ result.msg = "Interface not found on server"
                    /\ named # {} =>
                          LET iface == server.interfaces[Min(named)]
                          IN  /\ (~Truthy(iface.endpoint) \/ ~Truthy(iface.public_key)) =>
                                    /\ result.status = "raised"
                                    /\ result.exc = "InterfaceMissingKey"
                                    /\ result.msg \in {"Interface endpoint missing",
                                                       "Interface public_key missing"}
                              /\ (Truthy(iface.endpoint) /\ Truthy(iface.public_key)) =>
                                    result.status = "ok"
          /\ result.status = "ok" =>
                /\ Truthy(p.private_key)
                /\ p.client # None
                /\ ServerResolved
                /\ Named(ResolvedServer, p.interface) # {}
                /\ \E j \in Named(ResolvedServer, p.interface) :
                      /\ Truthy(ResolvedServer.interfaces[j].endpoint)
                      /\ Truthy(ResolvedServer.interfaces[j].public_key)

\* a peer with no private_key and no resolver: the missing-key error wins
C4_Witness ==
    /\ RenderDone
    /\ ~Truthy(args.private_key)
    /\ args.client = None
    /\ result.exc = "InterfaceMissingKey"

\* C5: every User handed back by list_users, get_user, create_user or
\* edit_user has each of its peers bound to the client that made the call.
C5_ReturnedPeersBound ==
    (pc = "done" /\ result.status = "ok") =>
      /\ op \in UserOps =>
            \A j \in DOMAIN returned.peers : returned.peers[j].client = Some(transport)
      /\ op = "list_users" =>
            \A u \in DOMAIN returned : \A j \in DOMAIN returned[u].peers :
               returned[u].peers[j].client = Some(transport)

\* get_user handed back a user with MaxPeers peers
C5_Witness ==
    /\ pc = "done"
    /\ result.status = "ok"
    /\ op = "get_user"
    /\ Len(returned.peers) = MaxPeers

OtherTransport == IF transport = "rest" THEN "grpc" ELSE "rest"

\* C6: the record a client hands back for a server state is the record the
\* parser of the other transport yields for the same server state, for
\* servers (with their interfaces) and for users (with their peers).
C6_ParsersAgree ==
    (pc = "done" /\ result.status = "ok") =>
      /\ op = "get_server" => returned = parse_server(OtherTransport, remote)
      /\ op \in UserOps =>
            returned = bind_peers(parse_user(OtherTransport, remote), transport)

ListRequestBuilt == op = "list_users" /\ pc # "idle"

Supplied(x) == x # None

\* C7 as stated: the request of list_users carries limit, skip, sort and
\* order as given, and each of social_id, status and search exactly when the
\* caller passed a value, with that value.
C7_FiltersCarriedWhenSupplied ==
    ListRequestBuilt =>
      /\ request.limit = Some(args.limit)
      /\ request.skip = Some(args.skip)
      /\ request.sort = Some(args.sort)
      /\ request.order = Some(args.order)
      /\ \A f \in {"social_id", "status", "search"} :
            /\ Supplied(args[f]) => request[f] = args[f]
            /\ ~Supplied(args[f]) => request[f] = None

\* C7 amended: as stated, except that status and search are carried exactly
\* when the caller passed a non-empty string: an empty string is treated as
\* unset and left out (social_id is carried whenever it is not None, 0
\* included).
C7_FiltersCarriedWhenNonEmpty ==
    ListRequestBuilt =>
      /\ request.limit = Some(args.limit)
      /\ request.skip = Some(args.skip)
      /\ request.sort = Some(args.sort)
      /\ request.order = Some(args.order)
      /\ Supplied(args.social_id) => request.social_id = args.social_id
      /\ ~Supplied(args.social_id) => request.social_id = None
      /\ \A f \in {"status", "search"} :
            /\ (Supplied(args[f]) /\ args[f] # Some("")) => request[f] = args[f]
            /\ (~Supplied(args[f]) \/ args[f] = Some("")) => request[f] = None

\* list_users(social_id=0, status="", search="bob") with non-default paging
C7_Witness ==
    /\ ListRequestBuilt
    /\ args.social_id = Some(0)
    /\ args.status = Some("")
    /\ args.search = Some("bob")
    /\ args.limit = 10
    /\ request.social_id = Some(0)
    /\ request.status = None

\* C8: the error raised for a peer that is not bound to a resolver is of a
\* kind of its own: neither the interface-not-found kind nor the missing-key
\* kind.
C8_UnboundIsItsOwnKind ==
    (RenderDone /\ Truthy(args.private_key) /\ args.client = None) =>
        /\ result.status = "raised"
        /\ result.exc \notin {"InterfaceNotFound", "InterfaceMissingKey"}

\* C9: with the server fetched, generate_config resolves an interface (it
\* does not fail with not-found) exactly when one and only one interface of
\* the server carries the peer's interface name.
C9_ResolvesExactlyOneMatch ==
    ServerResolved =>
        (result.exc # "InterfaceNotFound"
            <=> Cardinality(Named(ResolvedServer, args.interface)) = 1)

ClientOp == op \notin {"", "generate_config"}

\* C10: an operation of a client makes one _request/_call, and when it
\* raises none of its remote calls had succeeded before.
C10_SingleRequest ==
    ClientOp =>
      /\ Len(reqs) <= 1
      /\ (pc = "done" /\ result.status = "raised") =>
            \A i \in DOMAIN reqs : \A j \in DOMAIN reqs[i] :
               ~(reqs[i][j].k = "attempt" /\ reqs[i][j].r = "ok")

\* the latest exchange of the running operation, when it is an attempt
LatestAttempt ==
    /\ reqs # <<>>
    /\ reqs[Len(reqs)] # <<>>
    /\ reqs[Len(reqs)][Len(reqs[Len(reqs)])].k = "attempt"

\* C11: every attempt carries the token stored by the most recent login()
\* that returned (self.token has not changed since the attempt was sent), and
\* the retry after a re-login carries the token that re-login obtained.
C11_AttemptsCarryStoredToken ==
    /\ LatestAttempt =>
          reqs[Len(reqs)][Len(reqs[Len(reqs)])].tok = Some(token)
    /\ \A i \in DOMAIN reqs :
          (Len(reqs[i]) = 3 /\ reqs[i][2].k = "login") =>
              /\ reqs[i][3].tok # None
              /\ reqs[i][3].tok = reqs[i][2].tok

\* the same statement for the REST client alone
C11_RestAttemptsCarryStoredToken == transport = "rest" => C11_AttemptsCarryStoredToken

====
